---- MODULE Spec2Model ----
(***************************************************************************)
(* Elmer: the SocketManager (src/core/socket_manager.py) over sockets that *)
(* follow the ElmerSocket contract (src/core/base_socket.py), with the     *)
(* Phase 1 process() of ComprehensionSocket / MonitoringSocket.            *)
(***************************************************************************)
EXTENDS Integers, Sequences, FiniteSets, TLC

(* ---- bounds of the model ---- *)
NumIds == 3          \* distinct socket ids
NumObjs == 4         \* socket objects (several objects may share one id)
MaxCap == 2          \* SocketManager is constructed with max_sockets in 0..MaxCap
MaxCount == 1        \* process counters are followed up to this value
MaxProcessId == 3    \* process_text calls of one engine that pass its started check
MaxShutdown == 2     \* calls of the collaborator's shutdown
MaxTime == 3         \* the clock runs from 1 to MaxTime
MaxProcessed == 2    \* process calls that one socket used on its own accepts
MaxKeys == 2         \* keys of the payload handed to the signal factory
MaxSignals == 2      \* MemoryPipeline is constructed with max_signals in 0..MaxSignals
MaxStores == 4       \* store calls on one memory pipeline
MaxRecalls == 2      \* recall calls on one memory pipeline
MaxK == 3            \* recall is called with k in 0..MaxK
MaxHooks == 2        \* ElmerHook objects constructed by get_instance

Objs == 1 .. NumObjs
None == 0            \* Python None where a socket object is expected

(* ---- the socket objects: constant id and type of each object ---- *)
SocketTypes == <<"sensory", "health">>

\* the two sockets that ElmerEngine.start builds; their ids stand for
\* "elmer:comprehension" and "elmer:monitoring"
ComprehensionSocket == NumObjs + 1
MonitoringSocket == NumObjs + 2
EngineObjs == {ComprehensionSocket, MonitoringSocket}

socket_id(o) ==
    IF o = ComprehensionSocket THEN 1
    ELSE IF o = MonitoringSocket THEN 2
    ELSE ((o - 1) % NumIds) + 1

socket_type(o) ==
    IF o = ComprehensionSocket THEN "sensory"
    ELSE IF o = MonitoringSocket THEN "health"
    ELSE SocketTypes[(((o - 1) \div NumIds) % 2) + 1]

\* the enumeration SignalType: a member has a name and a string value
SENSORY == [name |-> "SENSORY", value |-> "sensory"]
INFERENCE == [name |-> "INFERENCE", value |-> "inference"]
HEALTH == [name |-> "HEALTH", value |-> "health"]
MEMORY == [name |-> "MEMORY", value |-> "memory"]
IDENTITY == [name |-> "IDENTITY", value |-> "identity"]

SignalType == {SENSORY, INFERENCE, HEALTH, MEMORY, IDENTITY}

\* the values a payload or metadata map holds: a string or something else
Str(x) == [type |-> "str", v |-> x]
NonStr(x) == [type |-> "int", v |-> x]

VARIABLES
    max_sockets,     \* SocketManager._max_sockets
    sockets,         \* SocketManager._sockets: dict in insertion order, seq of [id, obj]
    type_index,      \* SocketManager._type_index: function type -> seq of ids
    hardware,        \* SocketManager._hardware: "None" or "detected"
    started,         \* SocketManager._started
    connected,       \* ElmerSocket._connected of every socket object
    process_count,   \* ElmerSocket._process_count of every socket object
    error_count,     \* ElmerSocket._error_count of every socket object
    last_process_time,  \* ElmerSocket._last_process_time of every socket object
    connect_time,    \* ElmerSocket._connect_time of every socket object
    detect_count,    \* number of calls of SocketManager.detect_hardware so far
    engine_started,        \* ElmerEngine._started
    engine_start_time,     \* ElmerEngine._start_time
    engine_process_count,  \* ElmerEngine._process_count
    ecosystem,             \* ElmerEngine._ecosystem: "None" or "present"
    shutdown_calls,        \* number of calls of NGEcosystem.shutdown so far
    returned_id,           \* process_id of the latest process_text that returned
    now,                   \* time.time()
    heap,            \* the dict objects: heap[r] is the content of dict r
    orig,            \* the signal made by SubstrateSignal.create
    created,         \* the fields and map contents of orig when it was made
    ov,              \* the keyword arguments of the with_updates call
    upd,             \* the signal returned by with_updates
    buffer,          \* MemoryPipeline._buffer: the ids of the stored signals
    max_signals,     \* MemoryPipeline._max_signals
    store_count,     \* MemoryPipeline._store_count
    recall_count,    \* MemoryPipeline._recall_count
    instance,        \* ElmerHook._instance: None or the number of the hook object
    hook_started,    \* ElmerHook._started of the hook object in _instance
    hooks_made,      \* number of ElmerHook objects constructed so far
    router,          \* the caller running route_signal: position and locals
    unregistrar,     \* the caller running unregister: position and locals
    last             \* the last call: operation, arguments, outcome

engineVars == <<engine_started, engine_start_time, engine_process_count,
                ecosystem, shutdown_calls, returned_id, now>>

\* the fields of a socket that the manager does not write
socketVars == <<error_count, last_process_time, connect_time>>

signalVars == <<heap, orig, created, ov, upd>>
memoryVars == <<buffer, max_signals, store_count, recall_count>>
hookVars == <<instance, hook_started, hooks_made>>
raceVars == <<router, unregistrar>>
\* the state of the components that the manager, the engine and the signals
\* never touch
restVars == <<memoryVars, hookVars, raceVars>>

vars == <<max_sockets, sockets, type_index, hardware, started,
          connected, process_count, socketVars, detect_count, engineVars,
          signalVars, restVars, last>>

(* ---- dict helpers for _sockets ---- *)
Keys(d) == {d[i].id : i \in 1 .. Len(d)}

RECURSIVE DictGetFrom(_, _, _)
DictGetFrom(d, k, i) ==
    IF i > Len(d) THEN None
    ELSE IF d[i].id = k THEN d[i].obj
    ELSE DictGetFrom(d, k, i + 1)

DictGet(d, k) == DictGetFrom(d, k, 1)

DictPop(d, k) == SelectSeq(d, LAMBDA e : e.id # k)

Values(d) == {d[i].obj : i \in 1 .. Len(d)}

Connected(d) == {o \in Values(d) : connected[o]}

(* ---- signals ---- *)
\* ref stands for the identity of the Python object: a copy made by
\* with_updates is a new object
TestInput == 0       \* the source "test:input" of a signal made by a caller; no socket has it

\* SubstrateSignal.create(source_socket="test:input", signal_type=t,
\* payload={"text": "hello world"}); confidence in tenths
InputSignal(t) ==
    [ref |-> 0, signal_id |-> 1, timestamp |-> 1, signal_type |-> t,
     source_socket |-> TestInput,
     payload |-> [text |-> Str("hello world")],
     confidence |-> 10, priority |-> 5, graph_encoding |-> "None",
     metadata |-> {}]

with_updates(signal, src, md) ==
    [signal EXCEPT !.ref = @ + 1, !.source_socket = src, !.metadata = md]

ProcessedKey(o) ==
    IF socket_type(o) = "sensory" THEN "comprehension_processed"
    ELSE "monitoring_processed"

VersionKey(o) ==
    IF socket_type(o) = "sensory" THEN "comprehension_version"
    ELSE "monitoring_version"

\* variant: the annotation replaces the input's metadata
process_DropMetadata(o, signal) ==
    with_updates(signal, socket_id(o), {ProcessedKey(o), VersionKey(o)})

\* ComprehensionSocket.process / MonitoringSocket.process on a connected socket
process(o, signal) ==
    with_updates(signal, socket_id(o),
                 signal.metadata \cup {ProcessedKey(o), VersionKey(o)})

(* ---- the socket's own operations ---- *)
\* The two times are followed for the objects of the two concrete classes
\* (EngineObjs); of the sockets of the manager's own specifications the flag,
\* the processed counter and the error counter are followed.
Put(f, o, v) == IF o \in DOMAIN f THEN [f EXCEPT ![o] = v] ELSE f

\* st: the fields connect writes, [connected, connect_time] of every socket
\* variant: no early return for a connected socket
connect_NoGuard(st, o) ==
    [connected |-> [st.connected EXCEPT ![o] = TRUE],
     connect_time |-> Put(st.connect_time, o, now)]

\* connect: returns at once when connected, else sets _connected and records
\* the time
connect(st, o) ==
    IF st.connected[o] THEN st
    ELSE [connected |-> [st.connected EXCEPT ![o] = TRUE],
          connect_time |-> Put(st.connect_time, o, now)]

\* variant: the flag is flipped instead of cleared
disconnect_Toggle(conn, o) == [conn EXCEPT ![o] = ~@]

disconnect(conn, o) == [conn EXCEPT ![o] = FALSE]

NoCall == [op |-> "init"]

\* no signal has been made
NoSignal == [signal_id |-> 0]

SignalInit ==
    /\ heap = << >>
    /\ orig = NoSignal
    /\ created = NoSignal
    /\ ov = << >>
    /\ upd = NoSignal

\* the default of the max_signals parameter of MemoryPipeline.__init__
DefaultMaxSignals == 1000

\* a caller that is not inside a manager operation
Idle == [pc |-> "idle"]

\* MemoryPipeline.__init__ with the default max_signals, the class
\* attribute ElmerHook._instance, and no caller inside the manager
RestInit ==
    /\ buffer = << >>
    /\ max_signals = DefaultMaxSignals
    /\ store_count = 0
    /\ recall_count = 0
    /\ instance = None
    /\ hook_started = FALSE
    /\ hooks_made = 0
    /\ router = Idle
    /\ unregistrar = Idle

\* ElmerEngine.__init__
EngineInit ==
    /\ engine_started = FALSE
    /\ engine_start_time = 0
    /\ engine_process_count = 0
    /\ ecosystem = "None"
    /\ shutdown_calls = 0
    /\ returned_id = 0
    /\ now = 1

Init ==
    /\ max_sockets \in 0 .. MaxCap
    /\ sockets = << >>
    /\ type_index = << >>
    /\ hardware = "None"
    /\ started = FALSE
    /\ connected = [o \in Objs |-> FALSE]
    /\ process_count = [o \in Objs |-> 0]
    /\ error_count = [o \in Objs |-> 0]
    /\ last_process_time = [o \in EngineObjs |-> 0]
    /\ connect_time = [o \in EngineObjs |-> 0]
    /\ detect_count = 0
    /\ EngineInit
    /\ SignalInit
    /\ RestInit
    /\ last = NoCall

(* ---- register ---- *)
\* variant: no check for a registered id
RegisterOutcome_NoDupCheck(o) ==
    IF Len(sockets) >= max_sockets THEN "capacity" ELSE "ok"

\* variant: no check of the number of registered sockets
RegisterOutcome_NoLimit(o) ==
    IF socket_id(o) \in Keys(sockets) THEN "duplicate" ELSE "ok"

\* variant: the limit is compared with > instead of >=
RegisterOutcome_OffByOne(o) ==
    IF socket_id(o) \in Keys(sockets) THEN "duplicate"
    ELSE IF Len(sockets) > max_sockets THEN "capacity"
    ELSE "ok"

RegisterOutcome(o) ==
    IF socket_id(o) \in Keys(sockets) THEN "duplicate"
    ELSE IF Len(sockets) >= max_sockets THEN "capacity"
    ELSE "ok"

\* variant: the new id is put at the front of its bucket
IndexAppend_Front(idx, stype, sid) ==
    LET withKey == IF stype \in DOMAIN idx THEN idx
                   ELSE [t \in (DOMAIN idx) \cup {stype} |->
                            IF t \in DOMAIN idx THEN idx[t] ELSE << >>]
    IN  [withKey EXCEPT ![stype] = <<sid>> \o @]

IndexAppend(idx, stype, sid) ==
    LET withKey == IF stype \in DOMAIN idx THEN idx
                   ELSE [t \in (DOMAIN idx) \cup {stype} |->
                            IF t \in DOMAIN idx THEN idx[t] ELSE << >>]
    IN  [withKey EXCEPT ![stype] = Append(@, sid)]

\* register as a function of the registry: the outcome and the two structures
register(d, idx, o) ==
    IF socket_id(o) \in Keys(d)
    THEN [outcome |-> "duplicate", sockets |-> d, type_index |-> idx]
    ELSE IF Len(d) >= max_sockets
    THEN [outcome |-> "capacity", sockets |-> d, type_index |-> idx]
    ELSE [outcome |-> "ok",
          sockets |-> Append(d, [id |-> socket_id(o), obj |-> o]),
          type_index |-> IndexAppend(idx, socket_type(o), socket_id(o))]

Register(o) ==
    /\ last' = [op |-> "register", obj |-> o, outcome |-> RegisterOutcome(o)]
    /\ IF RegisterOutcome(o) = "ok"
       THEN /\ sockets' = Append(sockets, [id |-> socket_id(o), obj |-> o])
            /\ type_index' = IndexAppend(type_index, socket_type(o), socket_id(o))
       ELSE UNCHANGED <<sockets, type_index>>
    /\ UNCHANGED <<max_sockets, hardware, started, connected, process_count,
                   detect_count, socketVars, engineVars, signalVars, restVars>>

(* ---- unregister ---- *)
\* variant: the id is left in its bucket
IndexRemove_Keep(idx, stype, sid) == idx

IndexRemove(idx, stype, sid) ==
    IF stype \in DOMAIN idx
    THEN [idx EXCEPT ![stype] = SelectSeq(@, LAMBDA x : x # sid)]
    ELSE idx

\* variant: pop without a default, an absent id raises KeyError
Unregister_KeyError(sid, discFails) ==
    LET socket == DictGet(sockets, sid) IN
    IF socket = None
    THEN /\ last' = [op |-> "unregister", id |-> sid, outcome |-> "raised"]
         /\ UNCHANGED <<max_sockets, sockets, type_index, hardware, started,
                        connected, process_count, detect_count, socketVars,
                        engineVars, signalVars, restVars>>
    ELSE /\ sockets' = DictPop(sockets, sid)
         /\ type_index' = IndexRemove(type_index, socket_type(socket), sid)
         /\ connected' = IF connected[socket] /\ socket \notin discFails
                         THEN disconnect(connected, socket)
                         ELSE connected
         /\ last' = [op |-> "unregister", id |-> sid, outcome |-> "removed",
                     obj |-> socket,
                     disconnect_called |-> connected[socket],
                     disconnect_failed |-> connected[socket] /\ socket \in discFails]
         /\ UNCHANGED <<max_sockets, hardware, started, process_count,
                        detect_count, socketVars, engineVars, signalVars, restVars>>

\* variant: the socket is disconnected first, without try/except, so a
\* failing disconnect ends the call before anything is removed
Unregister_DisconnectFirst(sid, discFails) ==
    LET socket == DictGet(sockets, sid) IN
    IF socket = None
    THEN /\ last' = [op |-> "unregister", id |-> sid, outcome |-> "absent"]
         /\ UNCHANGED <<max_sockets, sockets, type_index, hardware, started,
                        connected, process_count, detect_count, socketVars,
                        engineVars, signalVars, restVars>>
    ELSE IF connected[socket] /\ socket \in discFails
    THEN /\ last' = [op |-> "unregister", id |-> sid, outcome |-> "raised",
                     obj |-> socket, disconnect_called |-> TRUE,
                     disconnect_failed |-> TRUE]
         /\ UNCHANGED <<max_sockets, sockets, type_index, hardware, started,
                        connected, process_count, detect_count, socketVars,
                        engineVars, signalVars, restVars>>
    ELSE /\ sockets' = DictPop(sockets, sid)
         /\ type_index' = IndexRemove(type_index, socket_type(socket), sid)
         /\ connected' = disconnect(connected, socket)
         /\ last' = [op |-> "unregister", id |-> sid, outcome |-> "removed",
                     obj |-> socket,
                     disconnect_called |-> connected[socket],
                     disconnect_failed |-> FALSE]
         /\ UNCHANGED <<max_sockets, hardware, started, process_count,
                        detect_count, socketVars, engineVars, signalVars, restVars>>

\* discFails: the sockets whose disconnect() raises in this call
Unregister(sid, discFails) ==
    LET socket == DictGet(sockets, sid) IN
    IF socket = None
    THEN /\ last' = [op |-> "unregister", id |-> sid, outcome |-> "absent"]
         /\ UNCHANGED <<max_sockets, sockets, type_index, hardware, started,
                        connected, process_count, detect_count, socketVars,
                        engineVars, signalVars, restVars>>
    ELSE /\ sockets' = DictPop(sockets, sid)
         /\ type_index' = IndexRemove(type_index, socket_type(socket), sid)
         /\ connected' = IF connected[socket] /\ socket \notin discFails
                         THEN disconnect(connected, socket)
                         ELSE connected
         /\ last' = [op |-> "unregister", id |-> sid, outcome |-> "removed",
                     obj |-> socket,
                     disconnect_called |-> connected[socket],
                     disconnect_failed |-> connected[socket] /\ socket \in discFails]
         /\ UNCHANGED <<max_sockets, hardware, started, process_count,
                        detect_count, socketVars, engineVars, signalVars, restVars>>

(* ---- connect_all ---- *)
\* the loop of connect_all from the i-th entry of _sockets on;
\* connFails: the sockets whose connect() raises in this call
\* variant: the first failing connect ends the loop
RECURSIVE ConnectLoop_Abort(_, _, _, _, _)
ConnectLoop_Abort(d, i, connFails, st, results) ==
    IF i > Len(d) THEN [st |-> st, results |-> results]
    ELSE LET sid == d[i].id
             socket == d[i].obj
         IN  IF socket \notin connFails
             THEN ConnectLoop_Abort(d, i + 1, connFails, connect(st, socket),
                                    results @@ (sid :> TRUE))
             ELSE [st |-> st, results |-> results @@ (sid :> FALSE)]

RECURSIVE ConnectLoop(_, _, _, _, _)
ConnectLoop(d, i, connFails, st, results) ==
    IF i > Len(d) THEN [st |-> st, results |-> results]
    ELSE LET sid == d[i].id
             socket == d[i].obj
         IN  IF socket \notin connFails
             THEN ConnectLoop(d, i + 1, connFails, connect(st, socket),
                              results @@ (sid :> TRUE))
             ELSE ConnectLoop(d, i + 1, connFails, st,
                              results @@ (sid :> FALSE))

ConnectAll(connFails) ==
    LET r == ConnectLoop(sockets, 1, connFails,
                         [connected |-> connected,
                          connect_time |-> connect_time], << >>) IN
    /\ hardware' = IF hardware = "None" THEN "detected" ELSE hardware
    /\ detect_count' = IF hardware = "None" THEN detect_count + 1
                       ELSE detect_count
    /\ connected' = r.st.connected
    /\ connect_time' = r.st.connect_time
    /\ started' = TRUE
    /\ last' = [op |-> "connect_all", results |-> r.results,
                failed |-> connFails \cap Values(sockets)]
    /\ UNCHANGED <<max_sockets, sockets, type_index, process_count,
                   error_count, last_process_time, engineVars, signalVars, restVars>>

(* ---- disconnect_all ---- *)
\* variant: no try/except around disconnect, the first failure ends the call
RECURSIVE DisconnectLoop_Abort(_, _, _, _, _)
DisconnectLoop_Abort(d, i, discFails, conn, called) ==
    IF i > Len(d)
    THEN [outcome |-> "returned", conn |-> conn, called |-> called]
    ELSE LET socket == d[i].obj IN
         IF conn[socket]
         THEN IF socket \in discFails
              THEN [outcome |-> "raised", conn |-> conn,
                    called |-> called \cup {socket}]
              ELSE DisconnectLoop_Abort(d, i + 1, discFails,
                                        disconnect(conn, socket),
                                        called \cup {socket})
         ELSE DisconnectLoop_Abort(d, i + 1, discFails, conn, called)

RECURSIVE DisconnectLoop(_, _, _, _, _)
DisconnectLoop(d, i, discFails, conn, called) ==
    IF i > Len(d)
    THEN [outcome |-> "returned", conn |-> conn, called |-> called]
    ELSE LET socket == d[i].obj IN
         IF conn[socket]
         THEN DisconnectLoop(d, i + 1, discFails,
                             IF socket \in discFails THEN conn
                             ELSE disconnect(conn, socket),
                             called \cup {socket})
         ELSE DisconnectLoop(d, i + 1, discFails, conn, called)

DisconnectAll(discFails) ==
    LET r == DisconnectLoop(sockets, 1, discFails, connected, {}) IN
    /\ connected' = r.conn
    /\ started' = FALSE
    /\ last' = [op |-> "disconnect_all", outcome |-> r.outcome,
                called |-> r.called, failed |-> r.called \cap discFails]
    /\ UNCHANGED <<max_sockets, sockets, type_index, hardware, process_count,
                   detect_count, socketVars, engineVars, signalVars, restVars>>

(* ---- route_signal ---- *)
IndexGet(idx, t) == IF t \in DOMAIN idx THEN idx[t] ELSE << >>

\* the loop of route_signal from the i-th id of the bucket on;
\* procFails: the sockets whose process() raises for this signal;
\* invoked: the sockets whose process() has been called so far.
\* The except clause only logs, so the for loop goes on to the next id.
\* variant: is_connected is not looked at
RECURSIVE RouteLoop_NoConnCheck(_, _, _, _, _, _, _)
RouteLoop_NoConnCheck(socket_ids, i, d, conn, signal, procFails, invoked) ==
    IF i > Len(socket_ids)
    THEN [outcome |-> "returned", result |-> signal, invoked |-> invoked,
          by |-> None]
    ELSE LET socket == DictGet(d, socket_ids[i]) IN
         IF socket # None
         THEN IF socket \notin procFails
              THEN [outcome |-> "returned", result |-> process(socket, signal),
                    invoked |-> Append(invoked, socket), by |-> socket]
              ELSE RouteLoop_NoConnCheck(socket_ids, i + 1, d, conn, signal,
                                         procFails, Append(invoked, socket))
         ELSE RouteLoop_NoConnCheck(socket_ids, i + 1, d, conn, signal,
                                    procFails, invoked)

\* variant: no try/except around process
RECURSIVE RouteLoop_NoCatch(_, _, _, _, _, _, _)
RouteLoop_NoCatch(socket_ids, i, d, conn, signal, procFails, invoked) ==
    IF i > Len(socket_ids)
    THEN [outcome |-> "returned", result |-> signal, invoked |-> invoked,
          by |-> None]
    ELSE LET socket == DictGet(d, socket_ids[i]) IN
         IF socket # None /\ conn[socket]
         THEN IF socket \notin procFails
              THEN [outcome |-> "returned", result |-> process(socket, signal),
                    invoked |-> Append(invoked, socket), by |-> socket]
              ELSE [outcome |-> "raised", result |-> None,
                    invoked |-> Append(invoked, socket), by |-> None]
         ELSE RouteLoop_NoCatch(socket_ids, i + 1, d, conn, signal, procFails,
                                invoked)

RECURSIVE RouteLoop(_, _, _, _, _, _, _)
RouteLoop(socket_ids, i, d, conn, signal, procFails, invoked) ==
    IF i > Len(socket_ids)
    THEN [outcome |-> "returned", result |-> signal, invoked |-> invoked,
          by |-> None]
    ELSE LET socket == DictGet(d, socket_ids[i]) IN
         IF socket # None /\ conn[socket]
         THEN IF socket \notin procFails
              THEN [outcome |-> "returned", result |-> process(socket, signal),
                    invoked |-> Append(invoked, socket), by |-> socket]
              ELSE RouteLoop(socket_ids, i + 1, d, conn, signal, procFails,
                             Append(invoked, socket))
         ELSE RouteLoop(socket_ids, i + 1, d, conn, signal, procFails, invoked)

\* variant: the bucket is scanned from its newest id
route_signal_Newest(signal, procFails) ==
    LET q == IndexGet(type_index, signal.signal_type.value) IN
    RouteLoop([i \in 1 .. Len(q) |-> q[Len(q) + 1 - i]], 1, sockets,
              connected, signal, procFails, << >>)

route_signal(signal, procFails) ==
    RouteLoop(IndexGet(type_index, signal.signal_type.value), 1, sockets,
              connected, signal, procFails, << >>)

SeqToSet(q) == {q[i] : i \in 1 .. Len(q)}

\* variant: the handler of a failed process counts the failure on the socket
OnProcessError_Count(ec, failed) ==
    [o \in DOMAIN ec |-> IF o \in failed THEN ec[o] + 1 ELSE ec[o]]

\* the except clause of route_signal: it logs the failure and writes nothing
OnProcessError(ec, failed) == ec

RouteSignal(t, procFails) ==
    LET signal == InputSignal(t)
        r == route_signal(signal, procFails)
    IN  /\ r.by # None => process_count[r.by] < MaxCount
        /\ process_count' = IF r.by # None
                            THEN [process_count EXCEPT ![r.by] = @ + 1]
                            ELSE process_count
        /\ last_process_time' = IF r.by # None
                                THEN Put(last_process_time, r.by, now)
                                ELSE last_process_time
        /\ last' = [op |-> "route_signal", signal |-> signal,
                    outcome |-> r.outcome, result |-> r.result,
                    invoked |-> r.invoked, by |-> r.by,
                    failed |-> SeqToSet(r.invoked) \cap procFails]
        /\ error_count' = OnProcessError(error_count,
                                          SeqToSet(r.invoked) \cap procFails)
        /\ UNCHANGED <<max_sockets, sockets, type_index, hardware, started,
                       connected, connect_time, detect_count,
                       engineVars, signalVars, restVars>>

\* ElmerSocket._base_health: the fields common to every socket's health_check
base_health(o) ==
    [socket_id |-> socket_id(o), socket_type |-> socket_type(o),
     connected |-> connected[o], process_count |-> process_count[o],
     error_count |-> error_count[o]]

(* ---- health_report ---- *)
\* ComprehensionSocket.health_check / MonitoringSocket.health_check
health_check(conn, o) == [status |-> IF conn[o] THEN "healthy" ELSE "offline"]

\* the loop of health_report from the i-th entry of _sockets on;
\* hcFails: the sockets whose health_check() raises in this call;
\* hcDegraded: the sockets that report the status "degraded"
RECURSIVE HealthLoop(_, _, _, _, _, _, _)
HealthLoop(d, i, conn, hcFails, hcDegraded, socket_health, statuses) ==
    IF i > Len(d) THEN [socket_health |-> socket_health, statuses |-> statuses]
    ELSE LET sid == d[i].id
             socket == d[i].obj
             h == IF socket \in hcDegraded THEN [status |-> "degraded"]
                  ELSE health_check(conn, socket)
         IN  IF socket \notin hcFails
             THEN HealthLoop(d, i + 1, conn, hcFails, hcDegraded,
                             socket_health @@ (sid :> h),
                             Append(statuses, h.status))
             ELSE HealthLoop(d, i + 1, conn, hcFails, hcDegraded,
                             socket_health @@ (sid :> [status |-> "error"]),
                             Append(statuses, "error"))

\* variant: no test for an empty list of statuses
Overall_NoEmptyCheck(statuses) ==
    IF \A i \in 1 .. Len(statuses) : statuses[i] = "healthy" THEN "healthy"
    ELSE IF \A i \in 1 .. Len(statuses) : statuses[i] \in {"offline", "error"}
         THEN "offline"
    ELSE "degraded"

Overall(statuses) ==
    IF statuses = << >> THEN "no_sockets"
    ELSE IF \A i \in 1 .. Len(statuses) : statuses[i] = "healthy" THEN "healthy"
    ELSE IF \A i \in 1 .. Len(statuses) : statuses[i] \in {"offline", "error"}
         THEN "offline"
    ELSE "degraded"

health_report(hcFails, hcDegraded) ==
    LET r == HealthLoop(sockets, 1, connected, hcFails, hcDegraded, << >>, << >>)
    IN  [status |-> Overall(r.statuses),
         socket_count |-> Len(sockets),
         connected_count |-> Cardinality(Connected(sockets)),
         hardware |-> hardware,
         sockets |-> r.socket_health]

HealthReport(hcFails, hcDegraded) ==
    /\ last' = [op |-> "health_report",
                report |-> health_report(hcFails, hcDegraded),
                raised |-> hcFails]
    /\ UNCHANGED <<max_sockets, sockets, type_index, hardware, started,
                   connected, process_count, detect_count, socketVars,
                        engineVars, signalVars, restVars>>

Next ==
    \/ \E o \in Objs : Register(o)
    \/ \E sid \in 1 .. NumIds :
          \E discFails \in SUBSET ({DictGet(sockets, sid)} \ {None}) :
             Unregister(sid, discFails)
    \/ \E connFails \in SUBSET Values(sockets) : ConnectAll(connFails)
    \/ \E discFails \in SUBSET Connected(sockets) : DisconnectAll(discFails)
    \/ \E t \in SignalType, procFails \in SUBSET Connected(sockets) :
          RouteSignal(t, procFails)

Spec == Init /\ [][Next]_vars

\* the manager with its health report, without routing
NextHealth ==
    \/ \E o \in Objs : Register(o)
    \/ \E sid \in 1 .. NumIds :
          \E discFails \in SUBSET ({DictGet(sockets, sid)} \ {None}) :
             Unregister(sid, discFails)
    \/ \E connFails \in SUBSET Values(sockets) : ConnectAll(connFails)
    \/ \E discFails \in SUBSET Connected(sockets) : DisconnectAll(discFails)
    \/ \E hcFails \in SUBSET Values(sockets) :
          \E hcDegraded \in SUBSET (Values(sockets) \ hcFails) :
             HealthReport(hcFails, hcDegraded)

SpecHealth == Init /\ [][NextHealth]_vars

(***************************************************************************)
(* ElmerEngine (src/runtime/engine.py) over its own SocketManager.  The    *)
(* engine registers the concrete ComprehensionSocket and MonitoringSocket, *)
(* whose connect, disconnect, process and health_check do not raise; the   *)
(* collaborator (NGEcosystem) may fail in each of its calls.               *)
(***************************************************************************)
managerVars == <<max_sockets, sockets, type_index, hardware, started,
                 connected, process_count, socketVars, detect_count>>

EngineInput == -1    \* the source "engine:input"

\* SubstrateSignal.create in process_text; metadata is {"process_id": n}
EngineSignal(n) ==
    [ref |-> 0, signal_id |-> n, timestamp |-> now, signal_type |-> SENSORY,
     source_socket |-> EngineInput,
     payload |-> [text |-> Str("text")],
     confidence |-> 10, priority |-> 5, graph_encoding |-> "None",
     metadata |-> {"process_id"}, process_id |-> n]

(* ---- GraphEncoder ---- *)
TextKeys == <<"text", "content", "message", "query">>

\* str(payload): the string form of the whole map
str(payload) == [type |-> "str", v |-> "str(payload)", of |-> payload]

\* variant: the value of a present key is taken whatever its type
RECURSIVE ExtractLoop_NoTypeCheck(_, _)
ExtractLoop_NoTypeCheck(payload, i) ==
    IF i > Len(TextKeys) THEN str(payload)
    ELSE IF TextKeys[i] \in DOMAIN payload
         THEN payload[TextKeys[i]]
         ELSE ExtractLoop_NoTypeCheck(payload, i + 1)

\* the loop of _extract_text from the i-th key on
RECURSIVE ExtractLoop(_, _)
ExtractLoop(payload, i) ==
    IF i > Len(TextKeys) THEN str(payload)
    ELSE IF TextKeys[i] \in DOMAIN payload
            /\ payload[TextKeys[i]].type = "str"
         THEN payload[TextKeys[i]]
         ELSE ExtractLoop(payload, i + 1)

extract_text(signal) == ExtractLoop(signal.payload, 1)

\* _embed: a vector that is a function of the text; the hash is not followed
embed(text) == [vector_of |-> text]

\* GraphEncoder.encode; target_id is the pair for "<type>:<source>"
encode(signal) ==
    [embedding |-> embed(extract_text(signal)),
     target_id |-> <<signal.signal_type.value, signal.source_socket>>,
     metadata |-> [signal_id |-> signal.signal_id,
                   signal_type |-> signal.signal_type.value,
                   source_socket |-> signal.source_socket,
                   confidence |-> signal.confidence,
                   priority |-> signal.priority]]

\* SignalDecoder.decode
decode(signal) ==
    [signal_id |-> signal.signal_id,
     signal_type |-> signal.signal_type.value,
     source_socket |-> signal.source_socket,
     payload |-> signal.payload,
     confidence |-> signal.confidence,
     priority |-> signal.priority,
     metadata |-> signal.metadata,
     graph_encoding |-> signal.graph_encoding]

InitEngine ==
    /\ max_sockets \in 0 .. MaxCap
    /\ sockets = << >>
    /\ type_index = << >>
    /\ hardware = "None"
    /\ started = FALSE
    /\ connected = [o \in EngineObjs |-> FALSE]
    /\ process_count = [o \in EngineObjs |-> 0]
    /\ error_count = [o \in EngineObjs |-> 0]
    /\ last_process_time = [o \in EngineObjs |-> 0]
    /\ connect_time = [o \in EngineObjs |-> 0]
    /\ detect_count = 0
    /\ EngineInit
    /\ SignalInit
    /\ RestInit
    /\ last = NoCall

(* ---- start ---- *)
\* variant: the started flag is not looked at
AlreadyStarted_Never == FALSE

AlreadyStarted == engine_started

\* variant: a ValueError of register is swallowed
RegisterDefaults_Swallow ==
    LET r1 == register(sockets, type_index, ComprehensionSocket)
        r2 == register(r1.sockets, r1.type_index, MonitoringSocket)
    IN  [r2 EXCEPT !.outcome = "ok"]

\* the two register calls of start; the second is not reached when the
\* first raises
RegisterDefaults ==
    LET r1 == register(sockets, type_index, ComprehensionSocket) IN
    IF r1.outcome # "ok" THEN r1
    ELSE register(r1.sockets, r1.type_index, MonitoringSocket)

\* variant: no except branch, _ecosystem and the tier are set all the same
InitEcosystem_NoFallback(ecoOk) == [ecosystem |-> "present", tier |-> 1]

\* the try/except around NGEcosystem.get_instance;
\* ecoOk: get_instance returns (TRUE) or raises (FALSE)
InitEcosystem(ecoOk) ==
    IF ecoOk THEN [ecosystem |-> "present", tier |-> 1]
    ELSE [ecosystem |-> "None", tier |-> 0]

\* what start() returns or raises
StartResult(ecoOk) ==
    IF AlreadyStarted
    THEN [op |-> "engine.start", outcome |-> "returned",
          status |-> "already_started"]
    ELSE LET r == RegisterDefaults IN
         IF r.outcome # "ok"
         THEN [op |-> "engine.start", outcome |-> "raised",
               error |-> r.outcome]
         ELSE LET c == ConnectLoop(r.sockets, 1, {},
                                   [connected |-> connected,
                                    connect_time |-> connect_time], << >>) IN
              [op |-> "engine.start", outcome |-> "returned",
               status |-> "started", sockets |-> c.results,
               ecosystem_tier |-> InitEcosystem(ecoOk).tier,
               get_instance |-> IF ecoOk THEN "returned" ELSE "raised"]

\* what start() writes to the engine, its manager and its sockets
engine_start(ecoOk) ==
    IF AlreadyStarted
    THEN UNCHANGED <<managerVars, engineVars>>
    ELSE LET r == RegisterDefaults IN
         IF r.outcome # "ok"
         THEN /\ sockets' = r.sockets
              /\ type_index' = r.type_index
              /\ UNCHANGED <<max_sockets, hardware, started, connected,
                             process_count, detect_count, socketVars,
                             engineVars>>
         ELSE LET c == ConnectLoop(r.sockets, 1, {},
                                   [connected |-> connected,
                                    connect_time |-> connect_time], << >>) IN
              /\ sockets' = r.sockets
              /\ type_index' = r.type_index
              /\ hardware' = IF hardware = "None" THEN "detected" ELSE hardware
              \* connect_all detects when _hardware is None; the report of
              \* start calls detect_hardware once more
              /\ detect_count' = (IF hardware = "None" THEN detect_count + 1
                                  ELSE detect_count) + 1
              /\ connected' = c.st.connected
              /\ connect_time' = c.st.connect_time
              /\ started' = TRUE
              /\ ecosystem' = InitEcosystem(ecoOk).ecosystem
              /\ engine_started' = TRUE
              /\ engine_start_time' = now
              /\ UNCHANGED <<max_sockets, process_count, error_count,
                             last_process_time, engine_process_count,
                             shutdown_calls, returned_id, now>>

EngineStart(ecoOk) ==
    /\ engine_start(ecoOk)
    /\ last' = StartResult(ecoOk)
    /\ UNCHANGED <<signalVars, restVars>>

(* ---- stop ---- *)
\* whether stop() raises; shutdownFails: the collaborator's shutdown raises
\* in this call
StopRaises(shutdownFails) ==
    engine_started /\ ecosystem = "present" /\ shutdownFails

\* what stop() writes to the engine, its manager and its sockets
engine_stop(shutdownFails) ==
    IF ~engine_started
    THEN UNCHANGED <<managerVars, engineVars>>
    ELSE LET r == DisconnectLoop(sockets, 1, {}, connected, {}) IN
         /\ ecosystem = "present" => shutdown_calls < MaxShutdown
         /\ connected' = r.conn
         /\ started' = FALSE
         /\ shutdown_calls' = IF ecosystem = "present" THEN shutdown_calls + 1
                              ELSE shutdown_calls
         /\ engine_started' = StopRaises(shutdownFails)
         /\ UNCHANGED <<max_sockets, sockets, type_index, hardware,
                        process_count, socketVars, detect_count,
                        engine_start_time, engine_process_count, ecosystem,
                        returned_id, now>>

EngineStop(shutdownFails) ==
    /\ engine_stop(shutdownFails)
    /\ last' = [op |-> "engine.stop",
                outcome |-> IF StopRaises(shutdownFails) THEN "raised"
                            ELSE "returned",
                acted |-> engine_started]
    /\ UNCHANGED <<signalVars, restVars>>

(* ---- process_text ---- *)
\* variant: the counter is incremented before the started check
NotStarted_CountFirst ==
    /\ last' = [op |-> "engine.process_text", outcome |-> "not_started"]
    /\ engine_process_count' = engine_process_count + 1
    /\ UNCHANGED <<managerVars, engine_started, engine_start_time, ecosystem,
                   shutdown_calls, returned_id, now, signalVars, restVars>>

\* process_text on an engine that is not started: RuntimeError at line 156
NotStarted ==
    /\ last' = [op |-> "engine.process_text", outcome |-> "not_started"]
    /\ UNCHANGED <<managerVars, engineVars, signalVars, restVars>>

\* ctx: what the collaborator's get_context does in this call: "raises",
\* returns a "context", or returns an "empty" one; "none" without collaborator
EngineProcessText(ctx) ==
    IF ~engine_started
    THEN NotStarted
    ELSE LET n == engine_process_count + 1
             r == route_signal(EngineSignal(n), {})
             graph_encoding == IF ecosystem = "present" THEN encode(r.result)
                               ELSE [embedding |-> "None"]
             result == decode(r.result) @@ [process_id |-> n]
         IN  /\ engine_process_count < MaxProcessId
             /\ engine_process_count' = n
             /\ process_count' = IF r.by # None
                                 THEN [process_count EXCEPT ![r.by] = @ + 1]
                                 ELSE process_count
             /\ last_process_time' =
                   IF r.by # None
                   THEN Put(last_process_time, r.by, now)
                   ELSE last_process_time
             /\ IF ecosystem = "present" /\ ctx = "raises"
                THEN /\ last' = [op |-> "engine.process_text",
                                 outcome |-> "raised", by |-> r.by]
                     /\ UNCHANGED returned_id
                ELSE /\ last' = [op |-> "engine.process_text",
                                 outcome |-> "returned", by |-> r.by,
                                 result |-> IF ecosystem = "present"
                                               /\ ctx = "context"
                                            THEN [ecosystem |-> "context"]
                                                    @@ result
                                            ELSE result]
                     /\ returned_id' = n
             /\ UNCHANGED <<max_sockets, sockets, type_index, hardware,
                            started, connected, error_count, connect_time,
                            detect_count, engine_started,
                            engine_start_time, ecosystem, shutdown_calls, now, signalVars, restVars>>

(* ---- health ---- *)
\* statsFails: the collaborator's stats raises in this call
EngineHealth(statsFails) ==
    /\ last' = IF ecosystem = "present" /\ statsFails
               THEN [op |-> "engine.health", outcome |-> "raised"]
               ELSE [op |-> "engine.health", outcome |-> "returned",
                     report |->
                        [status |-> IF engine_started THEN "healthy"
                                    ELSE "offline",
                         uptime |-> IF engine_started
                                    THEN now - engine_start_time ELSE 0,
                         process_count |-> engine_process_count,
                         sockets |-> health_report({}, {}),
                         ecosystem |-> IF ecosystem = "present" THEN "stats"
                                       ELSE "None"]]
    /\ UNCHANGED <<managerVars, engineVars, signalVars, restVars>>

\* time passes between two calls
Tick ==
    /\ now < MaxTime
    /\ now' = now + 1
    /\ last' = [op |-> "tick"]
    /\ UNCHANGED <<managerVars, engine_started, engine_start_time,
                   engine_process_count, ecosystem, shutdown_calls, returned_id, signalVars, restVars>>

NextEngine ==
    \/ \E ecoOk \in BOOLEAN : EngineStart(ecoOk)
    \/ \E shutdownFails \in BOOLEAN : EngineStop(shutdownFails)
    \/ \E ctx \in {"raises", "context", "empty"} : EngineProcessText(ctx)
    \/ \E statsFails \in BOOLEAN : EngineHealth(statsFails)
    \/ Tick

SpecEngine == InitEngine /\ [][NextEngine]_vars

(***************************************************************************)
(* A ComprehensionSocket and a MonitoringSocket used on their own, as the  *)
(* tests of src/tests/test_sockets.py use them: no manager, the caller     *)
(* calls connect, disconnect and process.                                  *)
(***************************************************************************)
\* the signals a caller hands to process
SocketSignals ==
    {[InputSignal(t) EXCEPT !.metadata = m] :
        t \in {SENSORY, HEALTH}, m \in {{}, {"source"}}}

SocketConnect(o) ==
    LET st == connect([connected |-> connected,
                       connect_time |-> connect_time], o) IN
    /\ connected' = st.connected
    /\ connect_time' = st.connect_time
    /\ last' = [op |-> "socket.connect", obj |-> o, outcome |-> "returned"]
    /\ UNCHANGED <<max_sockets, sockets, type_index, hardware, started,
                   process_count, error_count, last_process_time,
                   detect_count, engineVars, signalVars, restVars>>

SocketDisconnect(o) ==
    /\ connected' = disconnect(connected, o)
    /\ last' = [op |-> "socket.disconnect", obj |-> o, outcome |-> "returned"]
    /\ UNCHANGED <<max_sockets, sockets, type_index, hardware, started,
                   process_count, socketVars, detect_count, engineVars, signalVars, restVars>>

\* variant: the counter is incremented before the connected check
NotConnected_CountFirst(o, signal) ==
    /\ last' = [op |-> "socket.process", obj |-> o, signal |-> signal,
                outcome |-> "not_connected"]
    /\ process_count' = [process_count EXCEPT ![o] = @ + 1]
    /\ UNCHANGED <<max_sockets, sockets, type_index, hardware, started,
                   connected, socketVars, detect_count, engineVars, signalVars, restVars>>

\* process on a socket that is not connected: RuntimeError at line 65
NotConnected(o, signal) ==
    /\ last' = [op |-> "socket.process", obj |-> o, signal |-> signal,
                outcome |-> "not_connected"]
    /\ UNCHANGED <<managerVars, engineVars, signalVars, restVars>>

SocketProcess(o, signal) ==
    IF ~connected[o]
    THEN NotConnected(o, signal)
    ELSE /\ process_count[o] < MaxProcessed
         /\ process_count' = [process_count EXCEPT ![o] = @ + 1]
         /\ last_process_time' = Put(last_process_time, o, now)
         /\ last' = [op |-> "socket.process", obj |-> o, signal |-> signal,
                     outcome |-> "returned", result |-> process(o, signal)]
         /\ UNCHANGED <<max_sockets, sockets, type_index, hardware, started,
                        connected, error_count, connect_time, detect_count,
                        engineVars, signalVars, restVars>>

NextSocket ==
    \/ \E o \in EngineObjs : SocketConnect(o)
    \/ \E o \in EngineObjs : SocketDisconnect(o)
    \/ \E o \in EngineObjs, signal \in SocketSignals : SocketProcess(o, signal)
    \/ Tick

SpecSocket == InitEngine /\ [][NextSocket]_vars

(***************************************************************************)
(* SubstrateSignal (ng_ecosystem): the factory, with_updates, to_dict and  *)
(* from_dict as the specification and src/tests/test_signal_format.py      *)
(* describe them, and GraphEncoder.encode applied to the signals made.     *)
(* The maps of a signal are dict objects of the heap, so that a write to   *)
(* one dict shows in every signal that holds it.                           *)
(***************************************************************************)
Updated == -2        \* the source "test:updated"

PayloadKeys == {"text", "content", "message", "query", "other"}

\* the payloads handed to the factory: up to MaxKeys keys, each value a
\* string or not
Payloads ==
    UNION {[K -> {Str("s"), NonStr("n")}] :
              K \in {X \in SUBSET PayloadKeys : Cardinality(X) <= MaxKeys}}

Metadatas == {<< >>, [source |-> Str("test")]}

MapFields == {"payload", "metadata"}

Fields == {"signal_id", "timestamp", "source_socket", "signal_type", "payload",
           "confidence", "priority", "graph_encoding", "metadata"}

\* the signal with the contents of its maps in place of the dict objects
Deep(h, signal) ==
    [signal EXCEPT !.payload = h[signal.payload],
                   !.metadata = h[signal.metadata]]

\* SubstrateSignal.create: fresh identity, current timestamp, priority 5 and
\* no graph_encoding by default
create(h, src, t, payload, confidence, md) ==
    [heap |-> h \o <<payload, md>>,
     signal |-> [signal_id |-> 1, timestamp |-> now, source_socket |-> src,
                 signal_type |-> t, payload |-> Len(h) + 1,
                 confidence |-> confidence, priority |-> 5,
                 graph_encoding |-> "None", metadata |-> Len(h) + 2]]

Create(src, t, payload, confidence, md) ==
    LET r == create(heap, src, t, payload, confidence, md) IN
    /\ orig = NoSignal
    /\ heap' = r.heap
    /\ orig' = r.signal
    /\ created' = Deep(r.heap, r.signal)
    /\ last' = [op |-> "create"]
    /\ UNCHANGED <<managerVars, engineVars, ov, upd, restVars>>

\* variant: a map named in the overrides is written into the receiver's
\* dict, which the new signal then shares
with_updates_InPlace(h, signal, overrides) ==
    [heap |-> [r \in DOMAIN h |->
                 IF \E f \in MapFields \cap DOMAIN overrides : signal[f] = r
                 THEN LET f == CHOOSE f \in MapFields \cap DOMAIN overrides :
                                        signal[f] = r
                      IN  h[overrides[f]]
                 ELSE h[r]],
     signal |-> [f \in Fields |->
                   IF f \in DOMAIN overrides /\ f \notin MapFields
                   THEN overrides[f] ELSE signal[f]]]

\* with_updates on dict objects: a new signal whose named fields have the
\* overrides' values; its maps are new dicts, copies of the override's map
\* or of the receiver's
with_updates_heap(h, signal, overrides) ==
    [heap |-> h \o <<IF "payload" \in DOMAIN overrides
                     THEN h[overrides["payload"]] ELSE h[signal.payload],
                     IF "metadata" \in DOMAIN overrides
                     THEN h[overrides["metadata"]] ELSE h[signal.metadata]>>,
     signal |-> [f \in Fields |->
                   IF f = "payload" THEN Len(h) + 1
                   ELSE IF f = "metadata" THEN Len(h) + 2
                   ELSE IF f \in DOMAIN overrides THEN overrides[f]
                   ELSE signal[f]]]

\* names: the fields the caller overrides
WithUpdates(names) ==
    LET maps == (IF "payload" \in names THEN <<[text |-> Str("new")]>>
                 ELSE << >>)
                \o (IF "metadata" \in names THEN <<[tag |-> Str("v")]>>
                    ELSE << >>)
        h1 == heap \o maps
        overrides == [f \in names |->
                        IF f = "source_socket" THEN Updated
                        ELSE IF f = "confidence" THEN 9
                        ELSE IF f = "payload" THEN Len(heap) + 1
                        ELSE Len(h1)]
        r == with_updates_heap(h1, orig, overrides)
    IN  /\ orig # NoSignal
        /\ upd = NoSignal
        /\ heap' = r.heap
        /\ ov' = overrides
        /\ upd' = r.signal
        /\ last' = [op |-> "with_updates", names |-> names]
        /\ UNCHANGED <<managerVars, engineVars, orig, created, restVars>>

\* the caller writes a key into a dict it had passed to with_updates
MutateOverride(f) ==
    /\ upd # NoSignal
    /\ f \in MapFields \cap DOMAIN ov
    /\ "late" \notin DOMAIN heap[ov[f]]
    /\ heap' = [heap EXCEPT ![ov[f]] = @ @@ [late |-> Str("late")]]
    /\ last' = [op |-> "mutate_override", field |-> f]
    /\ UNCHANGED <<managerVars, engineVars, orig, created, ov, upd, restVars>>

\* SignalType(value): the member with that string value
SignalTypeOf(v) == CHOOSE m \in SignalType : m.value = v

\* to_dict: every field, the type as its string value
to_dict(signal) == [signal EXCEPT !.signal_type = @.value]

\* variant: the signal is rebuilt through the factory, with a fresh identity
from_dict_Fresh(d) ==
    [d EXCEPT !.signal_type = SignalTypeOf(@), !.signal_id = @ + 1]

\* from_dict: every field of the dict, the type restored to the member
from_dict(d) == [d EXCEPT !.signal_type = SignalTypeOf(@)]

RoundTrip ==
    LET d == to_dict(Deep(heap, orig)) IN
    /\ orig # NoSignal
    /\ last' = [op |-> "from_dict", dict |-> d, restored |-> from_dict(d)]
    /\ UNCHANGED <<managerVars, engineVars, signalVars, restVars>>

\* GraphEncoder.encode of the signal made by the factory or by with_updates
Encode(which) ==
    LET signal == IF which = "orig" THEN orig ELSE upd IN
    /\ signal # NoSignal
    /\ last' = [op |-> "encode", signal |-> Deep(heap, signal),
                encoding |-> encode(Deep(heap, signal))]
    /\ UNCHANGED <<managerVars, engineVars, signalVars, restVars>>

\* the payloads of the signals of src/tests/test_signal_format.py
TestPayloads == {<< >>, [text |-> Str("hello")], [result |-> NonStr("42")]}

NextSignal ==
    \/ \E t \in SignalType, payload \in TestPayloads, confidence \in {5, 10},
          md \in Metadatas : Create(TestInput, t, payload, confidence, md)
    \/ \E names \in SUBSET {"source_socket", "confidence", "payload",
                             "metadata"} : WithUpdates(names)
    \/ \E f \in MapFields : MutateOverride(f)
    \/ RoundTrip

SpecSignal == InitEngine /\ [][NextSignal]_vars

\* the encoder over signals with every payload of Payloads
NextEncoder ==
    \/ \E t \in SignalType, payload \in Payloads, md \in Metadatas :
          Create(TestInput, t, payload, 10, md)
    \/ WithUpdates({"source_socket"})
    \/ \E which \in {"orig", "upd"} : Encode(which)

SpecEncoder == InitEngine /\ [][NextEncoder]_vars

(***************************************************************************)
(* MemoryPipeline: a bounded buffer of stored signals.  The buffer is      *)
(* modelled by the ids of its signals; the n-th stored signal has id n.    *)
(***************************************************************************)
\* Python's lst[-n:] for n >= 0: -0 is 0, so lst[-0:] is the whole list
NegSlice(lst, n) ==
    IF n = 0 \/ n >= Len(lst) THEN lst
    ELSE SubSeq(lst, Len(lst) - n + 1, Len(lst))

\* the assignments to self._buffer in MemoryPipeline.store
store(buf, signal) ==
    LET appended == Append(buf, signal) IN
    IF Len(appended) > max_signals THEN NegSlice(appended, max_signals)
    ELSE appended

\* the list recent in MemoryPipeline.recall
recall(buf, k) == IF buf # << >> THEN NegSlice(buf, k) ELSE << >>

\* everything but the manager's limit and the memory pipeline's limit
InitOthers ==
    /\ sockets = << >>
    /\ type_index = << >>
    /\ hardware = "None"
    /\ started = FALSE
    /\ process_count = [o \in EngineObjs |-> 0]
    /\ error_count = [o \in EngineObjs |-> 0]
    /\ last_process_time = [o \in EngineObjs |-> 0]
    /\ connect_time = [o \in EngineObjs |-> 0]
    /\ detect_count = 0
    /\ EngineInit
    /\ SignalInit
    /\ buffer = << >>
    /\ store_count = 0
    /\ recall_count = 0
    /\ instance = None
    /\ hook_started = FALSE
    /\ hooks_made = 0
    /\ router = Idle
    /\ unregistrar = Idle
    /\ last = NoCall

\* MemoryPipeline(max_signals) for a non-negative max_signals
InitMemory ==
    /\ max_signals \in 0 .. MaxSignals
    /\ max_sockets = MaxCap
    /\ connected = [o \in EngineObjs |-> FALSE]
    /\ InitOthers

MemoryStore ==
    /\ store_count < MaxStores
    /\ buffer' = store(buffer, store_count + 1)
    /\ store_count' = store_count + 1
    /\ last' = [op |-> "store", signal_id |-> store_count + 1,
                result |-> [signal_type |-> MEMORY,
                            source_socket |-> "elmer:memory",
                            payload |-> [action |-> "stored",
                                         stored_signal_id |-> store_count + 1,
                                         buffer_size |-> Len(buffer')]]]
    /\ UNCHANGED <<managerVars, engineVars, signalVars, max_signals,
                   recall_count, hookVars, raceVars>>

MemoryRecall(k) ==
    /\ recall_count < MaxRecalls
    /\ recall_count' = recall_count + 1
    /\ last' = [op |-> "recall", k |-> k,
                result |-> [signal_type |-> MEMORY,
                            source_socket |-> "elmer:memory",
                            payload |-> [action |-> "recalled",
                                         recalled_count |-> Len(recall(buffer, k)),
                                         signal_ids |-> recall(buffer, k)]]]
    /\ UNCHANGED <<managerVars, engineVars, signalVars, buffer, max_signals,
                   store_count, hookVars, raceVars>>

NextMemory ==
    \/ MemoryStore
    \/ \E k \in 0 .. MaxK : MemoryRecall(k)

SpecMemory == InitMemory /\ [][NextMemory]_vars

(***************************************************************************)
(* ElmerHook: the singleton kept in the class attribute _instance.  The    *)
(* engine variables hold the engine of the hook object in _instance.       *)
(***************************************************************************)
\* ElmerHook.__init__: a new hook object owns a new engine, with a new
\* manager and new sockets, and a new memory pipeline
NewHook ==
    /\ sockets' = << >>
    /\ type_index' = << >>
    /\ hardware' = "None"
    /\ started' = FALSE
    /\ connected' = [o \in EngineObjs |-> FALSE]
    /\ process_count' = [o \in EngineObjs |-> 0]
    /\ error_count' = [o \in EngineObjs |-> 0]
    /\ last_process_time' = [o \in EngineObjs |-> 0]
    /\ connect_time' = [o \in EngineObjs |-> 0]
    /\ detect_count' = 0
    /\ engine_started' = FALSE
    /\ engine_start_time' = 0
    /\ engine_process_count' = 0
    /\ ecosystem' = "None"
    /\ returned_id' = 0
    /\ buffer' = << >>
    /\ max_signals' = DefaultMaxSignals
    /\ store_count' = 0
    /\ recall_count' = 0
    /\ hook_started' = FALSE
    /\ hooks_made' = hooks_made + 1
    /\ UNCHANGED <<max_sockets, shutdown_calls, now>>

GetInstance ==
    IF instance = None
    THEN /\ hooks_made < MaxHooks
         /\ NewHook
         /\ instance' = hooks_made + 1
         /\ last' = [op |-> "get_instance", result |-> hooks_made + 1]
         /\ UNCHANGED <<signalVars, raceVars>>
    ELSE /\ last' = [op |-> "get_instance", result |-> instance]
         /\ UNCHANGED <<managerVars, engineVars, signalVars, restVars>>

\* ElmerHook.start of the hook object in _instance
HookStart(ecoOk) ==
    /\ instance # None
    /\ IF hook_started
       THEN /\ last' = [op |-> "hook.start", outcome |-> "returned",
                        status |-> "already_started"]
            /\ UNCHANGED <<managerVars, engineVars, hook_started>>
       ELSE /\ engine_start(ecoOk)
            /\ hook_started' = (StartResult(ecoOk).outcome = "returned")
            /\ last' = [op |-> "hook.start",
                        outcome |-> StartResult(ecoOk).outcome,
                        status |-> "started"]
    /\ UNCHANGED <<signalVars, memoryVars, instance, hooks_made, raceVars>>

\* whether ElmerHook.stop raises; saveFails: the collaborator's save raises
\* in this call
HookStopRaises(shutdownFails, saveFails) ==
    hook_started /\ (StopRaises(shutdownFails) \/ saveFails)

\* what ElmerHook.stop writes
hook_stop(shutdownFails, saveFails) ==
    IF ~hook_started
    THEN UNCHANGED <<managerVars, engineVars, hook_started>>
    ELSE /\ engine_stop(shutdownFails)
         /\ hook_started' = HookStopRaises(shutdownFails, saveFails)

\* ElmerHook.stop of the hook object in _instance
HookStop(shutdownFails, saveFails) ==
    /\ instance # None
    /\ hook_stop(shutdownFails, saveFails)
    /\ last' = [op |-> "hook.stop",
                outcome |-> IF HookStopRaises(shutdownFails, saveFails)
                            THEN "raised" ELSE "returned"]
    /\ UNCHANGED <<signalVars, memoryVars, instance, hooks_made, raceVars>>

ResetInstance(shutdownFails, saveFails) ==
    IF instance = None
    THEN /\ last' = [op |-> "reset_instance", outcome |-> "returned"]
         /\ UNCHANGED <<managerVars, engineVars, signalVars, restVars>>
    ELSE /\ hook_stop(shutdownFails, saveFails)
         /\ instance' = IF HookStopRaises(shutdownFails, saveFails)
                        THEN instance ELSE None
         /\ last' = [op |-> "reset_instance",
                     outcome |-> IF HookStopRaises(shutdownFails, saveFails)
                                 THEN "raised" ELSE "returned"]
         /\ UNCHANGED <<signalVars, memoryVars, hooks_made, raceVars>>

NextHook ==
    \/ GetInstance
    \/ \E ecoOk \in BOOLEAN : HookStart(ecoOk)
    \/ \E shutdownFails, saveFails \in BOOLEAN :
          HookStop(shutdownFails, saveFails)
    \/ \E shutdownFails, saveFails \in BOOLEAN :
          ResetInstance(shutdownFails, saveFails)

SpecHook == InitEngine /\ [][NextHook]_vars

(***************************************************************************)
(* Two callers on one manager: one runs route_signal, the other            *)
(* unregister.  The manager takes no lock, so the statements of the two    *)
(* calls interleave; each action below is one read or write of shared      *)
(* state.                                                                  *)
(***************************************************************************)
\* the socket that processes the signal when route_signal runs alone on the
\* manager as it is
RouteAlone(signal) == route_signal(signal, {}).by

\* the socket that processes the signal when route_signal runs alone after
\* unregister(sid) has run alone
RouteAfterUnregister(signal, sid, discFails) ==
    LET socket == DictGet(sockets, sid)
        conn == IF connected[socket] /\ socket \notin discFails
                THEN disconnect(connected, socket) ELSE connected
        idx == IndexRemove(type_index, socket_type(socket), sid)
    IN  RouteLoop(IndexGet(idx, signal.signal_type.value), 1,
                  DictPop(sockets, sid), conn, signal, {}, << >>).by

\* the two calls are made; before and after record what the route would
\* give were it run alone before or alone after the unregister
BeginRace(t, sid, discFails) ==
    /\ router = Idle /\ unregistrar = Idle
    /\ router' = [pc |-> "fetch", signal |-> InputSignal(t),
                  socket_ids |-> << >>, i |-> 0, socket |-> None,
                  by |-> None,
                  before |-> RouteAlone(InputSignal(t)),
                  after |-> RouteAfterUnregister(InputSignal(t), sid,
                                                 discFails)]
    /\ unregistrar' = [pc |-> "pop", socket_id |-> sid, socket |-> None,
                       discFails |-> discFails]
    /\ last' = [op |-> "begin"]
    /\ UNCHANGED <<managerVars, engineVars, signalVars, memoryVars, hookVars>>

\* socket_ids = self._type_index.get(target_type, [])
RouteFetch ==
    /\ router.pc = "fetch"
    /\ router' = [router EXCEPT
                     !.pc = "get",
                     !.socket_ids = IndexGet(type_index,
                                             router.signal.signal_type.value),
                     !.i = 1]
    /\ last' = [op |-> "route_signal:fetch"]
    /\ UNCHANGED <<managerVars, engineVars, signalVars, memoryVars, hookVars,
                   unregistrar>>

\* for sid in socket_ids: socket = self._sockets.get(sid)
RouteGet ==
    /\ router.pc = "get"
    /\ router' =
          IF router.i > Len(router.socket_ids)
          THEN [router EXCEPT !.pc = "done", !.by = None]
          ELSE LET socket == DictGet(sockets, router.socket_ids[router.i]) IN
               IF socket = None
               THEN [router EXCEPT !.i = @ + 1]
               ELSE [router EXCEPT !.pc = "is_connected", !.socket = socket]
    /\ last' = [op |-> "route_signal:get"]
    /\ UNCHANGED <<managerVars, engineVars, signalVars, memoryVars, hookVars,
                   unregistrar>>

\* if socket and socket.is_connected
RouteIsConnected ==
    /\ router.pc = "is_connected"
    /\ router' = IF connected[router.socket]
                 THEN [router EXCEPT !.pc = "process"]
                 ELSE [router EXCEPT !.pc = "get", !.i = @ + 1]
    /\ last' = [op |-> "route_signal:is_connected"]
    /\ UNCHANGED <<managerVars, engineVars, signalVars, memoryVars, hookVars,
                   unregistrar>>

\* the first statement of process: a socket that is not connected raises,
\* route_signal logs it and goes on with the next id
RouteProcessCheck ==
    /\ router.pc = "process"
    /\ router' = IF connected[router.socket]
                 THEN [router EXCEPT !.pc = "body"]
                 ELSE [router EXCEPT !.pc = "get", !.i = @ + 1]
    /\ last' = [op |-> "route_signal:process"]
    /\ UNCHANGED <<managerVars, engineVars, signalVars, memoryVars, hookVars,
                   unregistrar>>

\* the rest of process, and the return of its result
RouteProcessBody ==
    /\ router.pc = "body"
    /\ process_count' = [process_count EXCEPT ![router.socket] = @ + 1]
    /\ last_process_time' = Put(last_process_time, router.socket, now)
    /\ router' = [router EXCEPT !.pc = "done", !.by = router.socket]
    /\ last' = [op |-> "route_signal:return",
                result |-> process(router.socket, router.signal)]
    /\ UNCHANGED <<max_sockets, sockets, type_index, hardware, started,
                   connected, error_count, connect_time, detect_count,
                   engineVars, signalVars, memoryVars, hookVars, unregistrar>>

\* socket = self._sockets.pop(socket_id, None); if socket is None: return
UnregisterPop ==
    /\ unregistrar.pc = "pop"
    /\ LET socket == DictGet(sockets, unregistrar.socket_id) IN
       /\ sockets' = DictPop(sockets, unregistrar.socket_id)
       /\ unregistrar' = [unregistrar EXCEPT
                             !.pc = IF socket = None THEN "done" ELSE "index",
                             !.socket = socket]
    /\ last' = [op |-> "unregister:pop"]
    /\ UNCHANGED <<max_sockets, type_index, hardware, started, connected,
                   process_count, socketVars, detect_count, engineVars,
                   signalVars, memoryVars, hookVars, router>>

\* self._type_index[stype] = [the ids of the bucket but socket_id]
UnregisterIndex ==
    /\ unregistrar.pc = "index"
    /\ type_index' = IndexRemove(type_index, socket_type(unregistrar.socket),
                                 unregistrar.socket_id)
    /\ unregistrar' = [unregistrar EXCEPT !.pc = "disconnect"]
    /\ last' = [op |-> "unregister:index"]
    /\ UNCHANGED <<max_sockets, sockets, hardware, started, connected,
                   process_count, socketVars, detect_count, engineVars,
                   signalVars, memoryVars, hookVars, router>>

\* if socket.is_connected: socket.disconnect(), a failure is logged
UnregisterDisconnect ==
    /\ unregistrar.pc = "disconnect"
    /\ connected' = IF /\ connected[unregistrar.socket]
                       /\ unregistrar.socket \notin unregistrar.discFails
                    THEN disconnect(connected, unregistrar.socket)
                    ELSE connected
    /\ unregistrar' = [unregistrar EXCEPT !.pc = "done"]
    /\ last' = [op |-> "unregister:return"]
    /\ UNCHANGED <<max_sockets, sockets, type_index, hardware, started,
                   process_count, socketVars, detect_count, engineVars,
                   signalVars, memoryVars, hookVars, router>>

\* the manager is filled by one caller; then the two calls are made on the
\* bucket of the signal's type
NextRace ==
    \/ router = Idle /\ \E o \in Objs : Register(o)
    \/ router = Idle /\ \E connFails \in SUBSET Values(sockets) :
                            ConnectAll(connFails)
    \/ \E t \in {SENSORY, HEALTH}, sid \in Keys(sockets) :
          /\ socket_type(DictGet(sockets, sid)) = t.value
          /\ \E discFails \in SUBSET {DictGet(sockets, sid)} :
                BeginRace(t, sid, discFails)
    \/ RouteFetch
    \/ RouteGet
    \/ RouteIsConnected
    \/ RouteProcessCheck
    \/ RouteProcessBody
    \/ UnregisterPop
    \/ UnregisterIndex
    \/ UnregisterDisconnect

SpecRace == Init /\ [][NextRace]_vars

(***************************************************************************)
(* Properties                                                              *)
(***************************************************************************)
IndexPositions ==
    UNION {{<<t, i>> : i \in 1 .. Len(type_index[t])} : t \in DOMAIN type_index}

\* the positions of a bucket whose socket is registered and connected
ConnectedPositions(bucket) ==
    {i \in 1 .. Len(bucket) :
        /\ DictGet(sockets, bucket[i]) # None
        /\ connected[DictGet(sockets, bucket[i])]}

FirstOf(S) == CHOOSE i \in S : \A j \in S : i <= j

\* C1: the registry and the type index are mutually consistent: every id in
\* a bucket is a registry key, every registry key is in exactly one bucket,
\* the one of its socket's type, and no id appears twice.
C1_RegistryIndexConsistent ==
    /\ \A p \in IndexPositions : type_index[p[1]][p[2]] \in Keys(sockets)
    /\ \A k \in Keys(sockets) :
          /\ Cardinality({p \in IndexPositions : type_index[p[1]][p[2]] = k}) = 1
          /\ socket_type(DictGet(sockets, k)) \in DOMAIN type_index
          /\ k \in SeqToSet(type_index[socket_type(DictGet(sockets, k))])
    /\ Cardinality(Keys(sockets)) = Len(sockets)

\* an unregister has emptied one bucket while another socket stays registered
C1_Witness ==
    /\ last.op = "unregister" /\ last.outcome = "removed"
    /\ Len(sockets) >= 1
    /\ \E t \in DOMAIN type_index : type_index[t] = << >>

\* C2: route_signal delivers the signal to the first connected socket of the
\* bucket of the signal's type, in registration order, skipping disconnected
\* sockets registered earlier; when that socket's process succeeds the result
\* is its output, whose source_socket is that socket's id.
C2_RouteFirstConnected ==
    last.op = "route_signal" =>
        LET bucket == IndexGet(type_index, last.signal.signal_type.value)
            cands == ConnectedPositions(bucket)
        IN  cands # {} =>
                LET f == DictGet(sockets, bucket[FirstOf(cands)]) IN
                /\ Len(last.invoked) >= 1
                /\ last.invoked[1] = f
                /\ f \notin last.failed =>
                      /\ last.by = f
                      /\ last.invoked = <<f>>
                      /\ last.result = process(f, last.signal)
                      /\ last.result.source_socket = socket_id(f)

\* a disconnected socket registered earlier was skipped and the first
\* connected one processed the signal
C2_Witness ==
    /\ last.op = "route_signal"
    /\ LET bucket == IndexGet(type_index, last.signal.signal_type.value) IN
       /\ Len(bucket) >= 2
       /\ ~connected[DictGet(sockets, bucket[1])]
       /\ last.by = DictGet(sockets, bucket[2])
       /\ last.result.source_socket = bucket[2]

\* C3 (as claimed): if process of the first connected socket of the bucket
\* fails, route_signal returns the input signal unchanged and tries no second
\* candidate.
C3_NoSecondCandidate ==
    last.op = "route_signal" =>
        LET bucket == IndexGet(type_index, last.signal.signal_type.value)
            cands == ConnectedPositions(bucket)
        IN  (cands # {} /\ DictGet(sockets, bucket[FirstOf(cands)]) \in last.failed)
            => /\ last.result = last.signal
               /\ last.invoked = <<DictGet(sockets, bucket[FirstOf(cands)])>>

\* C4 (as claimed): one route_signal call invokes process on at most one
\* socket.
C4_AtMostOneProcess ==
    last.op = "route_signal" => Len(last.invoked) <= 1

\* C5: when the bucket of the signal's type is missing or empty, or holds no
\* connected socket, route_signal returns the very input signal (same object,
\* every field equal) and invokes process on no socket.
C5_PassThrough ==
    last.op = "route_signal" =>
        LET bucket == IndexGet(type_index, last.signal.signal_type.value) IN
        ConnectedPositions(bucket) = {} =>
            /\ last.outcome = "returned"
            /\ last.result = last.signal
            /\ last.result.ref = last.signal.ref
            /\ last.invoked = << >>
            /\ last.by = None

\* a bucket with registered sockets, none of them connected, was routed to
C5_Witness ==
    /\ last.op = "route_signal"
    /\ last.signal.signal_type.value \in DOMAIN type_index
    /\ Len(type_index[last.signal.signal_type.value]) >= 1
    /\ ConnectedPositions(type_index[last.signal.signal_type.value]) = {}
    /\ last.result = last.signal

\* C6: a failure raised by a socket's process never escapes route_signal: the
\* call returns a signal, never an error.
C6_FailureAbsorbed ==
    last.op = "route_signal" =>
        /\ last.outcome = "returned"
        /\ last.result \in {last.signal} \cup
                           {process(o, last.signal) : o \in Values(sockets)}

\* process raised in every socket that was tried, and the call returned
C6_Witness ==
    /\ last.op = "route_signal"
    /\ last.failed # {}
    /\ last.by = None
    /\ last.outcome = "returned"

\* C7: register with an id already in the registry fails with the duplicate
\* error and leaves the registry, the type index with its bucket order and
\* every socket's connection state unchanged; the socket registered first
\* stays mapped to the id.
C7_DuplicateRegister ==
    [][\A o \in Objs :
          (last'.op = "register" /\ last'.obj = o
             /\ socket_id(o) \in Keys(sockets))
          => /\ last'.outcome = "duplicate"
             /\ UNCHANGED <<sockets, type_index, connected>>
             /\ DictGet(sockets', socket_id(o)) = DictGet(sockets, socket_id(o))]_vars

\* another object with a registered id was refused; the first one is mapped
C7_Witness ==
    /\ last.op = "register" /\ last.outcome = "duplicate"
    /\ DictGet(sockets, socket_id(last.obj)) # last.obj
    /\ DictGet(sockets, socket_id(last.obj)) # None

\* C8: register with a new id while the registry holds max_sockets sockets
\* fails with the capacity error and leaves registry and type index unchanged.
C8_CapacityRegister ==
    [][\A o \in Objs :
          (last'.op = "register" /\ last'.obj = o
             /\ socket_id(o) \notin Keys(sockets)
             /\ Len(sockets) = max_sockets)
          => /\ last'.outcome = "capacity"
             /\ UNCHANGED <<sockets, type_index>>]_vars

\* a new id was refused by a full, non-empty registry
C8_Witness ==
    /\ last.op = "register" /\ last.outcome = "capacity"
    /\ Len(sockets) = max_sockets /\ max_sockets >= 1
    /\ socket_id(last.obj) \notin Keys(sockets)

\* the ids of the sockets of type t, in the order of the registry
RECURSIVE IdsOfType(_, _)
IdsOfType(d, t) ==
    IF d = << >> THEN << >>
    ELSE IF socket_type(Head(d).obj) = t
         THEN <<Head(d).id>> \o IdsOfType(Tail(d), t)
         ELSE IdsOfType(Tail(d), t)

\* C9: a successful register maps the id to the socket and appends the id at
\* the end of the bucket of its type; each bucket lists its remaining ids in
\* the order they were registered.
C9_RegistrationOrder ==
    /\ \A t \in DOMAIN type_index : type_index[t] = IdsOfType(sockets, t)
    /\ (last.op = "register" /\ last.outcome = "ok") =>
          LET o == last.obj IN
          /\ DictGet(sockets, socket_id(o)) = o
          /\ socket_type(o) \in DOMAIN type_index
          /\ Len(type_index[socket_type(o)]) >= 1
          /\ type_index[socket_type(o)][Len(type_index[socket_type(o)])]
                = socket_id(o)

\* an id registered again after its unregister stands behind a later id
C9_Witness ==
    /\ last.op = "register" /\ last.outcome = "ok"
    /\ \E t \in DOMAIN type_index :
          /\ Len(type_index[t]) >= 2
          /\ type_index[t][1] > type_index[t][2]
          /\ type_index[t][2] = socket_id(last.obj)

\* C10: connect_all returns a map over exactly the registered ids, true for
\* each socket whose connect succeeded and false for each whose connect
\* failed; a failing socket does not keep the others from being connected, so
\* every socket reported true is connected on return.
C10_ConnectAllResults ==
    last.op = "connect_all" =>
        /\ DOMAIN last.results = Keys(sockets)
        /\ \A k \in Keys(sockets) :
              /\ last.results[k] = (DictGet(sockets, k) \notin last.failed)
              /\ last.results[k] => connected[DictGet(sockets, k)]

\* a socket registered before a connected one failed to connect
C10_Witness ==
    /\ last.op = "connect_all"
    /\ Len(sockets) >= 2
    /\ sockets[1].obj \in last.failed
    /\ ~connected[sockets[1].obj]
    /\ last.results[sockets[2].id]
    /\ connected[sockets[2].obj]

\* C12: disconnect_all never fails and is best-effort: disconnect is called on
\* every connected registered socket, a failing disconnect does not keep the
\* remaining sockets from being disconnected, registry and type index are
\* unchanged; when no disconnect fails every registered socket is
\* disconnected afterwards.
C12_DisconnectAllBestEffort ==
    [][last'.op = "disconnect_all" =>
          /\ last'.outcome = "returned"
          /\ last'.called = Connected(sockets)
          /\ UNCHANGED <<sockets, type_index>>
          /\ \A o \in Values(sockets) \ last'.failed : ~connected'[o]
          /\ last'.failed = {} => \A o \in Values(sockets) : ~connected'[o]]_vars

\* a socket registered after one whose disconnect failed was disconnected
C12_Witness ==
    /\ last.op = "disconnect_all"
    /\ \E i, j \in 1 .. Len(sockets) :
          /\ i < j
          /\ sockets[i].obj \in last.failed
          /\ sockets[j].obj \in last.called \ last.failed
          /\ ~connected[sockets[j].obj]

\* C13: unregister of an id that is not in the registry is a no-op: nothing
\* is raised; registry, type index and every connection state are unchanged.
C13_UnregisterAbsent ==
    [][\A sid \in 1 .. NumIds :
          (last'.op = "unregister" /\ last'.id = sid
             /\ sid \notin Keys(sockets))
          => /\ last'.outcome = "absent"
             /\ UNCHANGED <<sockets, type_index, connected>>]_vars

\* an absent id was unregistered while a connected socket is registered
C13_Witness ==
    /\ last.op = "unregister" /\ last.outcome = "absent"
    /\ Connected(sockets) # {}
    /\ last.id \notin Keys(sockets)

\* C14: unregister of a registered id removes the id from the registry and
\* from its bucket, leaves all other ids in place and disconnects the socket
\* if it was connected; a failing disconnect is absorbed and the socket is
\* removed from both structures all the same.
C14_UnregisterRemoves ==
    [][\A sid \in 1 .. NumIds :
          (last'.op = "unregister" /\ last'.id = sid /\ sid \in Keys(sockets))
          => LET o == DictGet(sockets, sid) IN
             /\ last'.outcome = "removed"
             /\ Keys(sockets') = Keys(sockets) \ {sid}
             /\ \A k \in Keys(sockets') :
                   DictGet(sockets', k) = DictGet(sockets, k)
             /\ DOMAIN type_index' = DOMAIN type_index
             /\ \A t \in DOMAIN type_index :
                   /\ sid \notin SeqToSet(type_index'[t])
                   /\ SeqToSet(type_index'[t]) = SeqToSet(type_index[t]) \ {sid}
             /\ last'.disconnect_called = connected[o]
             /\ (connected[o] /\ ~last'.disconnect_failed) => ~connected'[o]
             /\ \A q \in (DOMAIN connected) \ {o} : connected'[q] = connected[q]]_vars

\* a connected socket whose disconnect failed was removed, another one stays
C14_Witness ==
    /\ last.op = "unregister" /\ last.outcome = "removed"
    /\ last.disconnect_failed
    /\ last.id \notin Keys(sockets)
    /\ \A t \in DOMAIN type_index : last.id \notin SeqToSet(type_index[t])
    /\ Len(sockets) >= 1

\* C15: the overall status of health_report is 'no_sockets' iff the registry
\* is empty; otherwise 'healthy' iff every reported status is healthy,
\* 'offline' iff every reported status is offline or error (a socket whose
\* health_check raises is reported as error) and 'degraded' for every other
\* combination; the report holds exactly one entry per registered id.
C15_HealthReportStatus ==
    last.op = "health_report" =>
        LET rep == last.report
            st == {rep.sockets[k].status : k \in DOMAIN rep.sockets}
        IN  /\ DOMAIN rep.sockets = Keys(sockets)
            /\ rep.socket_count = Cardinality(Keys(sockets))
            /\ \A k \in Keys(sockets) :
                  DictGet(sockets, k) \in last.raised
                     => rep.sockets[k].status = "error"
            /\ (rep.status = "no_sockets") <=> (sockets = << >>)
            /\ sockets # << >> =>
                  /\ (rep.status = "healthy") <=> (st \subseteq {"healthy"})
                  /\ (rep.status = "offline") <=> (st \subseteq {"offline", "error"})
                  /\ (rep.status = "degraded") <=>
                        (~(st \subseteq {"healthy"})
                           /\ ~(st \subseteq {"offline", "error"}))

\* one socket reports healthy and the health_check of another one raised
C15_Witness ==
    /\ last.op = "health_report"
    /\ last.report.status = "degraded"
    /\ \E k \in Keys(sockets) :
          /\ DictGet(sockets, k) \in last.raised
          /\ last.report.sockets[k].status = "error"
    /\ \E k \in Keys(sockets) : last.report.sockets[k].status = "healthy"

\* C11 (as claimed): hardware detection is performed exactly once per
\* manager, by the first connect_all: none before it, and no later operation
\* of the manager or of the engine that owns it performs it again.
C11_DetectOnce ==
    detect_count = (IF hardware = "None" THEN 0 ELSE 1)

\* the engine has been stopped: its flag is down and a start time is recorded
Stopped == ~engine_started /\ engine_start_time > 0

\* C16: the engine lifecycle is forward-only: once stop() has moved a started
\* engine to stopped, no start, stop, process_text or health call makes it
\* started again.
C16_NoRestart ==
    [][Stopped => ~engine_started']_vars

\* start() was called on a stopped engine and failed on the registered id
C16_Witness ==
    /\ Stopped
    /\ last.op = "engine.start"
    /\ last.outcome = "raised"
    /\ last.error = "duplicate"

\* C17: start() on a started engine returns the 'already_started' status
\* without failing and changes no state: no socket is registered or connected
\* again, the collaborator is not initialised again, start time and process
\* counter are unchanged.
C17_StartAlreadyStarted ==
    [][(last'.op = "engine.start" /\ engine_started)
          => /\ last'.outcome = "returned"
             /\ last'.status = "already_started"
             /\ UNCHANGED <<managerVars, engineVars>>]_vars

\* a second start() after some processing, at a later time than the first
C17_Witness ==
    /\ last.op = "engine.start"
    /\ last.outcome = "returned"
    /\ last.status = "already_started"
    /\ engine_started
    /\ engine_process_count >= 1
    /\ now > engine_start_time

\* C18 (as claimed): stop() on an engine that is not started changes nothing;
\* over any number of stop() calls after one start() the sockets are
\* disconnected and the collaborator's shutdown is invoked exactly once.
C18_StopIdempotent ==
    [][last'.op = "engine.stop" =>
          IF ~engine_started
          THEN UNCHANGED <<managerVars, engineVars>>
          ELSE /\ \A o \in Values(sockets') : ~connected'[o]
               /\ shutdown_calls' = IF ecosystem = "present" THEN 1 ELSE 0]_vars

\* C19: process_text on an engine that is not started fails with the
\* not-started error and changes no state: the process counter keeps its value
\* and no signal is created or routed.
C19_ProcessTextNotStarted ==
    [][(last'.op = "engine.process_text" /\ ~engine_started)
          => /\ last'.outcome = "not_started"
             /\ UNCHANGED <<managerVars, engineVars>>]_vars

\* process_text was refused on a stopped engine that had processed before
C19_Witness ==
    /\ last.op = "engine.process_text"
    /\ last.outcome = "not_started"
    /\ Stopped
    /\ engine_process_count >= 1
    /\ process_count[ComprehensionSocket] = engine_process_count

\* C20 (as claimed): each process_text call that returns has a process_id
\* exactly one greater than the one returned by the previous process_text call
\* of the engine, 1 for the first: no gaps.
C20_ProcessIdsNoGaps ==
    [][(last'.op = "engine.process_text" /\ last'.outcome = "returned")
          => last'.result.process_id = returned_id + 1]_vars

\* C21 (as claimed): in every state in which the engine is not started
\* (never started, or stopped), health() reports the status 'offline' with
\* uptime 0, whatever the value of the process counter.
C21_HealthOffline ==
    (last.op = "engine.health" /\ ~engine_started)
        => /\ last.outcome = "returned"
           /\ last.report.status = "offline"
           /\ last.report.uptime = 0

\* C22: when the initialisation of the collaborator fails in start(), start()
\* still returns 'started' with ecosystem tier 0 and no collaborator, the
\* default sockets are registered and connected, and each later process_text
\* of the started engine returns a record without collaborator context.
C22_StandaloneStart ==
    [][/\ (last'.op = "engine.start" /\ ~engine_started
              /\ last'.outcome = "returned"
              /\ last'.get_instance = "raised")
          => /\ last'.status = "started"
             /\ last'.ecosystem_tier = 0
             /\ ecosystem' = "None"
             /\ engine_started'
             /\ EngineObjs \subseteq Values(sockets')
             /\ \A o \in EngineObjs : connected'[o]
             /\ \A k \in Keys(sockets') : last'.sockets[k]
       /\ (last'.op = "engine.process_text" /\ engine_started
              /\ ecosystem = "None")
          => /\ last'.outcome = "returned"
             /\ "ecosystem" \notin DOMAIN last'.result
             /\ last'.result.process_id = engine_process_count + 1
             /\ last'.result.source_socket = socket_id(ComprehensionSocket)]_vars

\* an engine started without collaborator has processed two texts
C22_Witness ==
    /\ last.op = "engine.process_text"
    /\ last.outcome = "returned"
    /\ engine_started
    /\ ecosystem = "None"
    /\ last.result.process_id = 2
    /\ "ecosystem" \notin DOMAIN last.result

\* C23 (as claimed): a misbehaving collaborator never makes an engine
\* operation fail: process_text on a started engine, health and stop return
\* normally whatever get_context, stats and shutdown do, and stop leaves the
\* engine stopped.
C23_CollaboratorAbsorbed ==
    [][/\ (last'.op = "engine.process_text" /\ engine_started)
          => last'.outcome = "returned"
       /\ last'.op = "engine.health" => last'.outcome = "returned"
       /\ last'.op = "engine.stop"
          => (last'.outcome = "returned" /\ ~engine_started')]_vars

\* C24: connect() is idempotent: on a connected socket it raises nothing,
\* leaves the socket connected and changes neither the recorded connect time
\* nor the counters; on a disconnected socket it connects the socket and
\* records the connect time.
C24_ConnectIdempotent ==
    [][\A o \in EngineObjs :
          (last'.op = "socket.connect" /\ last'.obj = o)
          => /\ last'.outcome = "returned"
             /\ connected'[o]
             /\ UNCHANGED <<process_count, error_count, last_process_time>>
             /\ IF connected[o]
                THEN UNCHANGED <<connected, connect_time>>
                ELSE connect_time'[o] = now]_vars

\* connect() was called on a socket connected at an earlier time
C24_Witness ==
    /\ last.op = "socket.connect"
    /\ connected[last.obj]
    /\ connect_time[last.obj] > 0
    /\ connect_time[last.obj] < now

\* C25: disconnect() is idempotent and never fails: in every state, also on
\* a socket that was never connected, it returns normally and leaves the
\* socket disconnected, the processed and error counters unchanged.
C25_DisconnectIdempotent ==
    [][\A o \in EngineObjs :
          (last'.op = "socket.disconnect" /\ last'.obj = o)
          => /\ last'.outcome = "returned"
             /\ ~connected'[o]
             /\ UNCHANGED <<process_count, error_count>>]_vars

\* disconnect() was called on a socket that was never connected
C25_Witness ==
    /\ last.op = "socket.disconnect"
    /\ ~connected[last.obj]
    /\ connect_time[last.obj] = 0

\* C26: process(signal) on a disconnected socket fails with the not-connected
\* error and leaves the socket's state unchanged: processed counter and
\* last-process time keep their values and the socket stays disconnected.
C26_ProcessNotConnected ==
    [][\A o \in EngineObjs :
          (last'.op = "socket.process" /\ last'.obj = o /\ ~connected[o])
          => /\ last'.outcome = "not_connected"
             /\ ~connected'[o]
             /\ UNCHANGED <<process_count, last_process_time, error_count,
                            connect_time>>]_vars

\* a socket that had processed and was disconnected refused a signal
C26_Witness ==
    /\ last.op = "socket.process"
    /\ last.outcome = "not_connected"
    /\ process_count[last.obj] >= 1
    /\ last_process_time[last.obj] > 0
    /\ ~connected[last.obj]

\* C27: a successful process(signal) on a connected socket increments that
\* socket's processed counter by one and returns a new signal with the
\* input's identity, type and payload, the socket's id as source_socket and
\* the input's metadata plus the socket's annotation; the counter changes in
\* no other step, so it equals the number of successful process calls.
C27_ProcessCounts ==
    [][/\ \A o \in EngineObjs :
             (last'.op = "socket.process" /\ last'.obj = o /\ connected[o])
             => /\ last'.outcome = "returned"
                /\ process_count'[o] = process_count[o] + 1
                /\ last_process_time'[o] = now
                /\ last'.result.ref # last'.signal.ref
                /\ last'.result.signal_id = last'.signal.signal_id
                /\ last'.result.signal_type = last'.signal.signal_type
                /\ last'.result.payload = last'.signal.payload
                /\ last'.result.source_socket = socket_id(o)
                /\ last'.result.metadata =
                      last'.signal.metadata \cup {ProcessedKey(o), VersionKey(o)}
                /\ last'.signal \in SocketSignals
       /\ \A o \in EngineObjs :
             process_count'[o] # process_count[o]
             => /\ last'.op = "socket.process"
                /\ last'.outcome = "returned"
                /\ last'.obj = o]_vars

\* the second successful process of a socket, for a signal with metadata
C27_Witness ==
    /\ last.op = "socket.process"
    /\ last.outcome = "returned"
    /\ process_count[last.obj] = 2
    /\ last.signal.metadata = {"source"}
    /\ "source" \in last.result.metadata
    /\ ProcessedKey(last.obj) \in last.result.metadata

\* C28: with_updates never mutates the receiver: for every combination of
\* overridden fields the original signal's fields and the contents of its
\* metadata and payload maps are as they were made, after the call and after
\* any later write to the override's maps, and every field not named in the
\* override has the original's value in the new signal.
C28_WithUpdatesFrame ==
    /\ orig # NoSignal => Deep(heap, orig) = created
    /\ upd # NoSignal =>
          /\ \A f \in Fields \ DOMAIN ov : Deep(heap, upd)[f] = created[f]
          /\ \A f \in DOMAIN ov \ MapFields : upd[f] = ov[f]
          /\ \A f \in MapFields : upd[f] # orig[f]

\* the metadata passed to with_updates was written to after the call
C28_Witness ==
    /\ upd # NoSignal
    /\ "metadata" \in DOMAIN ov
    /\ "payload" \notin DOMAIN ov
    /\ "late" \in DOMAIN heap[ov["metadata"]]
    /\ "late" \notin DOMAIN heap[orig.metadata]
    /\ heap[upd.payload] = created.payload

PresentKeys(payload) == {i \in 1 .. Len(TextKeys) : TextKeys[i] \in DOMAIN payload}

\* the positions of TextKeys whose key is in the payload with a string value
StringKeys(payload) ==
    {i \in PresentKeys(payload) : payload[TextKeys[i]].type = "str"}

\* C30 (as claimed): the encoder takes its text from the first of the keys
\* text, content, message, query that is present in the payload, and falls
\* back to the string form of the payload only when none is present; the
\* target id is '<type>:<source socket>' of the encoded signal.
C30_FirstPresentKey ==
    last.op = "encode" =>
        LET payload == last.signal.payload IN
        /\ PresentKeys(payload) # {} =>
              last.encoding.embedding
                 = embed(payload[TextKeys[FirstOf(PresentKeys(payload))]])
        /\ last.encoding.embedding = embed(str(payload))
              => PresentKeys(payload) = {}
        /\ last.encoding.target_id
              = <<last.signal.signal_type.value, last.signal.source_socket>>

\* C30 (amended): the encoder takes its text from the first of the keys
\* text, content, message, query that is present in the payload with a string
\* value, and falls back to the string form of the payload exactly when no
\* key is present with a string value; the target id is
\* '<type>:<source socket>' of the encoded signal.
C30_FirstStringKey ==
    last.op = "encode" =>
        LET payload == last.signal.payload IN
        /\ StringKeys(payload) # {} =>
              /\ last.encoding.embedding
                    = embed(payload[TextKeys[FirstOf(StringKeys(payload))]])
              /\ last.encoding.embedding.vector_of.type = "str"
        /\ (last.encoding.embedding = embed(str(payload)))
              <=> (StringKeys(payload) = {})
        /\ last.encoding.target_id
              = <<last.signal.signal_type.value, last.signal.source_socket>>

\* a payload whose text is not a string and whose content is one was encoded
C30_Witness ==
    /\ last.op = "encode"
    /\ "text" \in DOMAIN last.signal.payload
    /\ last.signal.payload["text"].type # "str"
    /\ "content" \in DOMAIN last.signal.payload
    /\ last.encoding.embedding = embed(last.signal.payload["content"])

Min(a, b) == IF a <= b THEN a ELSE b

\* C31: after every store the buffer holds at most max_signals signals, and
\* they are the most recently stored ones in the order they were stored.
C31_BoundedBuffer ==
    LET n == Min(store_count, max_signals) IN
    /\ Len(buffer) <= max_signals
    /\ buffer = [i \in 1 .. n |-> store_count - n + i]

\* C32: recall(query, k) returns min(k, buffer size) ids, those of the most
\* recently stored signals, and leaves the buffer as it was.
C32_RecallAtMostK ==
    [][last'.op = "recall" /\ recall_count' = recall_count + 1 =>
          LET n == Min(last'.k, Len(buffer))
              payload == last'.result.payload IN
          /\ payload.recalled_count = n
          /\ payload.signal_ids = SubSeq(buffer, Len(buffer) - n + 1, Len(buffer))
          /\ buffer' = buffer]_vars

\* C35: the number of registered sockets never exceeds max_sockets, whatever
\* sequence of register and unregister calls was made.
C35_AtMostMaxSockets == Len(sockets) <= max_sockets

\* a manager of capacity one is full again with a socket registered after
\* the unregister of another one, which is still connected because its
\* disconnect failed
C35_Witness ==
    /\ max_sockets = 1 /\ Len(sockets) = 1
    /\ last.op = "register" /\ last.outcome = "ok"
    /\ \E o \in Objs : DictGet(sockets, socket_id(o)) # o /\ connected[o]

\* C36: no operation changes a socket's error counter: after any sequence of
\* connects, disconnects, processing and routing, routing calls in which the
\* socket's process raised included, the error_count of its health fields is 0.
C36_ErrorCountZero == \A o \in DOMAIN error_count : base_health(o).error_count = 0

\* a routing call in which a socket's process raised, after that socket had
\* been connected
C36_Witness ==
    /\ last.op = "route_signal"
    /\ \E o \in last.failed : connected[o] /\ base_health(o).error_count = 0

\* C37 (as claimed): after stop() on a started engine, process_text fails with
\* the not-started error; neither stop() nor the failed call changes the
\* process counter, and health() after stop reports the count reached while
\* the engine was started.
C37_AfterStop ==
    [][/\ last'.op = "engine.stop"
             => engine_process_count' = engine_process_count
       /\ (last.op = "engine.stop" /\ last.acted)
             => /\ last'.op = "engine.process_text"
                     => /\ last'.outcome = "not_started"
                        /\ engine_process_count' = engine_process_count
                /\ last'.op = "engine.health"
                     => /\ last'.outcome = "returned"
                        /\ last'.report.process_count = engine_process_count]_vars

\* C38 (as claimed): the status of health() follows the started flag alone:
\* 'healthy' whenever the engine is started, 'offline' otherwise.
C38_StatusFollowsStarted ==
    last.op = "engine.health"
        => /\ last.outcome = "returned"
           /\ last.report.status = IF engine_started THEN "healthy"
                                    ELSE "offline"

\* C39 (as claimed): when start() has failed while registering the default
\* sockets the engine is unstarted: the next process_text fails with
\* not-started, the next health() reports 'offline', the next stop() changes
\* nothing.
C39_FailedStart ==
    [][(last.op = "engine.start" /\ last.outcome = "raised")
          => /\ ~engine_started /\ ~engine_started'
             /\ last'.op = "engine.process_text"
                  => last'.outcome = "not_started"
             /\ last'.op = "engine.health"
                  => /\ last'.outcome = "returned"
                     /\ last'.report.status = "offline"
             /\ last'.op = "engine.stop"
                  => UNCHANGED <<managerVars, engineVars>>]_vars

\* C33 (as claimed): get_instance returns the hook in _instance until
\* reset_instance is called; reset_instance stops that hook and clears
\* _instance, so that the next get_instance makes a new hook.
C33_Singleton ==
    [][/\ (last'.op = "get_instance" /\ instance # None)
             => last'.result = instance /\ instance' = instance
       /\ (last'.op = "get_instance" /\ instance = None)
             => last'.result = hooks_made + 1 /\ instance' = hooks_made + 1
       /\ last'.op = "reset_instance"
             => instance' = None /\ ~hook_started']_vars

\* C34 (as claimed): when unregister(id) runs concurrently with route_signal
\* on the same type bucket, the socket that processes the signal is the one
\* of a route run entirely before or entirely after the unregister, and no
\* socket processes a signal after its unregister has completed.
C34_RouteUnregisterAtomic ==
    [][/\ (router'.pc = "done" /\ unregistrar'.pc = "done")
             => router'.by \in {router'.before, router'.after}
       /\ (router.pc = "body" /\ router'.pc = "done")
             => ~(unregistrar.pc = "done"
                    /\ unregistrar.socket = router.socket)]_vars
====
